---- MODULE Spec2Model ----
(***************************************************************************)
(* A model of three pieces of Nuclide:                                     *)
(*   - ATDeviceStopPackageProvider  (pkg/nuclide-adb-sdb/lib)              *)
(*   - the feature loader           (lib/main.js)                          *)
(*   - observePaneItemVisibility    (modules/nuclide-commons-atom)         *)
(* Each piece has its own specifications over its own group of variables;  *)
(* the other groups stay at their initial values.                          *)
(***************************************************************************)
EXTENDS Naturals, Integers, Sequences, FiniteSets, TLC

\* ------------------------------------------------------------------ bounds
MaxPid == 3
MaxProcs == 2
NumPanes == 2
NumSubs == 2

\* ------------------------------------------------------------- variables
VARIABLES
  \* ATDeviceStopPackageProvider
  rpcLog,        \* calls made by the last run(): rpcFactory and service calls
  rpcPromise,    \* state of the promise returned by killProcess
  runPromise,    \* state of the promise returned by run
  runArgs,       \* arguments of the last run()
  supported      \* last getSupportedPIDs call: its arguments and its result

provVars == <<rpcLog, rpcPromise, runPromise, runArgs, supported>>

VARIABLES
  \* lib/main.js: module state
  initialLoadDisposable,   \* "listening" | "null"
  disposables,             \* the CompositeDisposable of activate(), or null
  errorReporterDisposable, \* "set" | "null"
  \* the host editor, as main.js uses it
  watchers,       \* atom.config: live onDidChange callbacks per use key path
  userCfg,        \* atom.config: the user-set value of each nuclide.use.*
  schemaMerged,   \* atom.config: Nuclide's config defaults are merged
  nuclideLoaded,  \* atom.packages: did-load-package was emitted for nuclide
  nuclideActive,  \* atom.packages: Nuclide's activate() ran, deactivate() not yet
  loaded,         \* atom.packages: the loaded feature packages
  active,         \* atom.packages: the active feature packages
  template,       \* atom.menu.template
  \* what the last handler did
  lastOp,         \* the handler, its input and the state it started from
  calls,          \* the atom.packages calls it made, in order
  serialized,     \* the features the host serialized during it
  loadPassDone,   \* the load pass has run
  everActivated   \* activate() has run

loaderVars == <<initialLoadDisposable, disposables, errorReporterDisposable,
                watchers, userCfg, schemaMerged, nuclideLoaded, nuclideActive,
                loaded, active, template, lastOp, calls, serialized,
                loadPassDone, everActivated>>

VARIABLES
  \* the workspace, as observePaneItemVisibility.js sees it
  docksApi,     \* atom.workspace.getPaneContainers exists
  paneState,    \* each pane: "unborn", "alive" or "destroyed"
  paneItem,     \* the active item of each pane
  \* observeActiveItems(): the memoized, shared observable
  connected,    \* share(): the source is subscribed (refCount > 0)
  acc,          \* scan(): the Map of panes to their active items
  pending,      \* debounceTime(): a value waits for the animation frame
  \* the subscriptions of observePaneItemVisibility(item)
  subItem,      \* the item each subscriber watches
  subLast,      \* distinctUntilChanged(): the last value passed on
  emitted,      \* the last two values each subscriber received
  emitTruth,    \* the item's visibility when the last value was computed
  absence       \* history: the watched item left the record after a true

visVars == <<docksApi, paneState, paneItem, connected, acc, pending,
             subItem, subLast, emitted, emitTruth, absence>>
vars == <<provVars, loaderVars, visVars>>
notProvider == <<loaderVars, visVars>>
notLoader == <<provVars, visVars>>
notVis == <<provVars, loaderVars>>

Range(s) == {s[i] : i \in DOMAIN s}

\* ============================================================ the provider
Hosts == {"local", "nuclide://remote"}
Devices == {"emulator-5554", "emulator-5556"}
ProcNames == {"com.a", "com.b"}
Processes == [pid : 1..MaxPid, name : ProcNames]
ProcLists == UNION {[1..n -> Processes] : n \in 0..MaxProcs}
NoProc == [pid |-> 0, name |-> ""]
NoArgs == [host |-> "", device |-> "", proc |-> NoProc]

\* isSupported(proc)
IsSupported(proc) == TRUE

\* procs.map(proc => proc.pid)
MapPidsDropLast(procs) == [i \in 1..(Len(procs) - 1) |-> procs[i].pid]
MapPids(procs) == [i \in DOMAIN procs |-> procs[i].pid]

\* new Set(array)
NewSet(array) == {array[i] : i \in DOMAIN array}

\* getSupportedPIDs(host, device, procs): Promise.resolve(new Set(...))
GetSupportedPIDs(host, device, procs) ==
  /\ supported' = [called |-> TRUE, host |-> host, device |-> device,
                   procs |-> procs, state |-> "fulfilled",
                   value |-> NewSet(MapPids(procs))]
  /\ UNCHANGED <<rpcLog, rpcPromise, runPromise, runArgs>>
  /\ UNCHANGED notProvider

\* The argument run passes to killProcess after the device: proc.name
KillArg(proc) == proc.name

\* run(host, device, proc): the synchronous part of the async function, up to
\* the return of the promise of killProcess.
Run(host, device, proc) ==
  /\ runPromise \in {"none", "fulfilled", "rejected"}
  /\ rpcLog' = << [fn |-> "rpcFactory", host |-> host, device |-> "", arg |-> ""],
                  [fn |-> "killProcess", host |-> host, device |-> device,
                   arg |-> KillArg(proc)] >>
  /\ rpcPromise' = "pending"
  /\ runPromise' = "pending"
  /\ runArgs' = [host |-> host, device |-> device, proc |-> proc]
  /\ UNCHANGED supported
  /\ UNCHANGED notProvider

\* The RPC answers: the promise of killProcess settles.
RpcSettle(outcome) ==
  /\ rpcPromise = "pending"
  /\ rpcPromise' = outcome
  /\ UNCHANGED <<rpcLog, runPromise, runArgs, supported>>
  /\ UNCHANGED notProvider

\* An async function that returns a promise: its own promise adopts the
\* returned promise's outcome.
RunOutcomeSwallow(rpc) == "fulfilled"
RunOutcome(rpc) == rpc

RunSettle ==
  /\ runPromise = "pending"
  /\ rpcPromise \in {"fulfilled", "rejected"}
  /\ runPromise' = RunOutcome(rpcPromise)
  /\ UNCHANGED <<rpcLog, rpcPromise, runArgs, supported>>
  /\ UNCHANGED notProvider

InitProvider ==
  /\ rpcLog = << >>
  /\ rpcPromise = "none"
  /\ runPromise = "none"
  /\ runArgs = NoArgs
  /\ supported = [called |-> FALSE, host |-> "", device |-> "", procs |-> << >>,
                  state |-> "none", value |-> {}]

NextSupportedPIDs ==
  \E h \in Hosts, d \in Devices, ps \in ProcLists : GetSupportedPIDs(h, d, ps)

NextRun ==
  \/ \E h \in Hosts, d \in Devices, p \in Processes : Run(h, d, p)
  \/ \E o \in {"fulfilled", "rejected"} : RpcSettle(o)
  \/ RunSettle


\* ========================================================= the loader
\* Package names are sequences of characters, so that startsWith and === are
\* computed, not assumed.
NuclideName == <<"n","u","c","l","i","d","e">>
OtherName == <<"t","a","b","s">>
SamplePrefix == <<"s","a","m","p","l","e","-">>

\* Object.keys(features): the discovered features, in insertion order.
FeatureOrder == << <<"s","a","m","p","l","e","s">>,
                   <<"s","a","m","p","l","e","-","x">> >>
Features == Range(FeatureOrder)

\* The values atom.config.get may return for a use key path: undefined (not
\* set), the booleans, a truthy non-boolean and a falsy non-boolean.
Values == {"undefined", "true", "false", "1", "null"}
Truthy(v) == v \in {"true", "1"}
BoolValue(b) == IF b THEN "true" ELSE "false"

\* name.startsWith(prefix)
StartsWith(name, prefix) ==
  /\ Len(name) >= Len(prefix)
  /\ SubSeq(name, 1, Len(prefix)) = prefix

\* config.use.properties[name].default: enabled = !name.startsWith('sample-')
DefaultAlwaysOn(name) == "true"
Default(name) == BoolValue(~StartsWith(name, SamplePrefix))

\* atom.config.get(feature.useKeyPath): the user-set value, or the default
\* once the defaults are merged (at activation).
ConfigGet(cfg, merged, name) ==
  IF cfg[name] = "undefined" /\ merged THEN Default(name) ELSE cfg[name]

\* _shouldEnable of the load pass
ShouldEnable(cfg, merged, name) ==
  LET _enabled == ConfigGet(cfg, merged, name)
  IN Truthy(IF _enabled = "undefined" THEN Default(name) ELSE _enabled)

\* ---- atom.packages, on a record h of the host's package state:
\*   loaded, active, calls (the log), serialized, threw (an exception in flight)
Call(fn, pkg, suppress) == [fn |-> fn, pkg |-> pkg, suppress |-> suppress]

LoadPackage(h, name) ==
  [h EXCEPT !.loaded = @ \cup {name},
            !.calls = Append(@, Call("loadPackage", name, "n/a"))]

\* activatePackage loads the package when it is not loaded yet.
ActivatePackage(h, name) ==
  [h EXCEPT !.loaded = @ \cup {name},
            !.active = @ \cup {name},
            !.calls = Append(@, Call("activatePackage", name, "n/a"))]

\* deactivatePackage(name, suppressSerialization) serializes an active package
\* first unless told not to. thr: the packages for which the call throws
\* before the host has changed anything (a call that throws after the host
\* did its work leaves the state of one that does not throw).
DeactivatePackage(h, name, suppress, thr) ==
  LET logged == [h EXCEPT !.calls = Append(@, Call("deactivatePackage", name, suppress))]
  IN IF name \in thr
     THEN [logged EXCEPT !.threw = TRUE]
     ELSE [logged EXCEPT
             !.active = @ \ {name},
             !.serialized = IF ~Truthy(suppress) /\ name \in h.active
                            THEN @ \cup {name} ELSE @]

SerializePackage(h, name, thr) ==
  LET logged == [h EXCEPT !.calls = Append(@, Call("serializePackage", name, "n/a"))]
  IN IF name \in thr
     THEN [logged EXCEPT !.threw = TRUE]
     ELSE [logged EXCEPT !.serialized = @ \cup {name}]

\* safeDeactivate(name, suppressSerialization)
SafeDeactivateIfActive(h, name, suppress, thr) ==
  LET r == IF name \in h.active
           THEN DeactivatePackage(h, name, suppress, thr) ELSE h
  IN [r EXCEPT !.threw = FALSE]
SafeDeactivate(h, name, suppress, thr) ==
  LET r == IF name \in h.loaded   \* getLoadedPackage(name) != null
           THEN DeactivatePackage(h, name, suppress, thr) ELSE h
  IN [r EXCEPT !.threw = FALSE]   \* catch (err): logged and dropped

\* safeSerialize(name)
SafeSerializeLoaded(h, name, thr) ==
  LET r == IF name \in h.loaded THEN SerializePackage(h, name, thr) ELSE h
  IN [r EXCEPT !.threw = FALSE]
SafeSerialize(h, name, thr) ==
  LET r == IF name \in h.active   \* getActivePackage(name) != null
           THEN SerializePackage(h, name, thr) ELSE h
  IN [r EXCEPT !.threw = FALSE]

\* deactivate() goes over Object.keys(features): every discovered feature.
DeactivateOrderEnabledOnly ==
  SelectSeq(FeatureOrder, LAMBDA f : Truthy(ConfigGet(userCfg, schemaMerged, f)))
DeactivateOrder == FeatureOrder

\* Object.keys(features).forEach(...): an exception ends the loop.
RECURSIVE ForEachDeactivate(_, _, _, _)
ForEachDeactivate(h, i, suppress, thr) ==
  IF i > Len(DeactivateOrder) \/ h.threw THEN h
  ELSE ForEachDeactivate(SafeDeactivate(h, DeactivateOrder[i], suppress, thr),
                         i + 1, suppress, thr)

RECURSIVE ForEachSerialize(_, _, _)
ForEachSerialize(h, i, thr) ==
  IF i > Len(FeatureOrder) \/ h.threw THEN h
  ELSE ForEachSerialize(SafeSerialize(h, FeatureOrder[i], thr), i + 1, thr)

RECURSIVE ForEachLoad(_, _, _, _)
ForEachLoad(h, i, cfg, merged) ==
  IF i > Len(FeatureOrder) THEN h
  ELSE ForEachLoad(IF ShouldEnable(cfg, merged, FeatureOrder[i])
                   THEN LoadPackage(h, FeatureOrder[i]) ELSE h,
                   i + 1, cfg, merged)

RECURSIVE ForEachActivate(_, _, _, _)
ForEachActivate(h, i, cfg, merged) ==
  IF i > Len(FeatureOrder) THEN h
  ELSE ForEachActivate(IF Truthy(ConfigGet(cfg, merged, FeatureOrder[i]))
                       THEN ActivatePackage(h, FeatureOrder[i]) ELSE h,
                       i + 1, cfg, merged)

\* The host state a handler starts from: an empty log, nothing in flight.
HostNow == [loaded |-> loaded, active |-> active, calls |-> << >>,
            serialized |-> {}, threw |-> FALSE]

\* ---- atom.menu
MenuLabels == {"File", "Window", "Help"}
RoleOf(label) == CASE label = "Window" -> "window"
                   [] label = "Help" -> "help"
                   [] OTHER -> ""
\* A top-level menu; shared: other packages have entries in its submenu.
MenuItem(label, shared) == [label |-> label, role |-> RoleOf(label), shared |-> shared]
HasLabel(t, label) == \E i \in DOMAIN t : t[i].label = label

\* atom.menu.add([{label: 'Nuclide', submenu: [...]}]): merged into the menu of
\* that label when there is one, appended otherwise.
MenuAdd(t) ==
  IF HasLabel(t, "Nuclide") THEN t ELSE Append(t, MenuItem("Nuclide", FALSE))

\* Disposing what atom.menu.add returned removes the submenu entry, and the
\* menu itself when nothing else is in it.
MenuDispose(t) ==
  SelectSeq(t, LAMBDA item : ~(item.label = "Nuclide" /\ ~item.shared))

\* Array.prototype.findIndex, 0-based, -1 when nothing matches; matches[i]
\* is the callback's answer for the i-th element.
FindIndex(matches) ==
  IF \E i \in DOMAIN matches : matches[i]
  THEN (CHOOSE i \in DOMAIN matches :
          matches[i] /\ \A j \in 1..(i - 1) : ~matches[j]) - 1
  ELSE -1

\* Array.prototype.splice(start, 1): a negative start counts from the end
SpliceStart(t, start) ==
  IF start < 0
  THEN (IF Len(t) + start > 0 THEN Len(t) + start ELSE 0)
  ELSE (IF start < Len(t) THEN start ELSE Len(t))
SpliceOut(t, start) ==
  LET s == SpliceStart(t, start)
  IN [rest |-> SubSeq(t, 1, s) \o SubSeq(t, s + 2, Len(t)),
      removed |-> SubSeq(t, s + 1, s + 1)]
\* Array.prototype.splice(start, 0, item)
SpliceIn(t, start, items) ==
  LET s == SpliceStart(t, start)
  IN SubSeq(t, 1, s) \o items \o SubSeq(t, s + 1, Len(t))

\* newIndex = insertIndex > nuclideIndex ? insertIndex - 1 : insertIndex
NewIndexNoShift(insertIndex, nuclideIndex) == insertIndex
NewIndex(insertIndex, nuclideIndex) ==
  IF insertIndex > nuclideIndex THEN insertIndex - 1 ELSE insertIndex

\* "Manually manipulate the menu template order."
ReorderMenu(t) ==
  LET insertIndex ==
        FindIndex([i \in DOMAIN t |-> t[i].role = "window" \/ t[i].role = "help"])
  IN IF insertIndex /= -1
     THEN LET nuclideIndex == FindIndex([i \in DOMAIN t |-> t[i].label = "Nuclide"])
              cut == SpliceOut(t, nuclideIndex)
          IN SpliceIn(cut.rest, NewIndex(insertIndex, nuclideIndex), cut.removed)
     ELSE t

\* ---- the handlers
NoDisposables == [isNull |-> TRUE, menu |-> FALSE, held |-> [f \in Features |-> 0]]

\* What a handler records of its call: its input, and what it found of the
\* state it changes.
Op(op, pkg, newValue, thr, passRan, returned) ==
  [op |-> op, pkg |-> pkg, newValue |-> newValue, thr |-> thr,
   passRan |-> passRan, returned |-> returned,
   templateBefore |-> IF op = "activate" THEN template ELSE << >>,
   passDoneBefore |-> loadPassDone, everActivatedBefore |-> everActivated]

\* The listener of atom.packages.onDidLoadPackage, for an event of package
\* `name`. The host (re)loads Nuclide only while Nuclide is not active.
InitialLoadKeepListening == "listening"
InitialLoadDispose == "null"

DidLoadPackage(name) ==
  /\ name \in {NuclideName, OtherName}
  /\ name = NuclideName => ~nuclideActive
  /\ nuclideLoaded' = (nuclideLoaded \/ name = NuclideName)
  /\ LET listening == initialLoadDisposable /= "null"
         runs == listening /\ name = NuclideName   \* pack.name !== 'nuclide': return
         h == IF runs THEN ForEachLoad(HostNow, 1, userCfg, schemaMerged) ELSE HostNow
     IN /\ loaded' = h.loaded
        /\ active' = h.active
        /\ calls' = h.calls
        /\ serialized' = h.serialized
        /\ initialLoadDisposable' =
             IF runs THEN InitialLoadDispose ELSE initialLoadDisposable
        /\ loadPassDone' = (loadPassDone \/ runs)
        /\ lastOp' = Op("didLoadPackage", name, "undefined", {}, runs, TRUE)
  /\ UNCHANGED <<disposables, errorReporterDisposable, watchers, userCfg,
                 schemaMerged, nuclideActive, template, everActivated>>
  /\ UNCHANGED notLoader

\* The host activates a loaded feature package itself ("Atom will activate all
\* loaded packages"), once Nuclide's load pass is over.
HostActivatesFeature(name) ==
  /\ nuclideLoaded
  /\ name \in loaded \ active
  /\ active' = active \cup {name}
  /\ calls' = << >>
  /\ serialized' = {}
  /\ lastOp' = Op("hostActivate", name, "undefined", {}, FALSE, TRUE)
  /\ UNCHANGED <<initialLoadDisposable, disposables, errorReporterDisposable,
                 watchers, userCfg, schemaMerged, nuclideLoaded, nuclideActive,
                 loaded, template, loadPassDone, everActivated>>
  /\ UNCHANGED notLoader

\* activate(), called by the host after it merged Nuclide's config defaults.
\* Its other calls (the error reporter, localStorage.removeItem, the install
\* of the recommended packages) touch none of the state below but
\* errorReporterDisposable.
Activate ==
  /\ nuclideLoaded /\ ~nuclideActive
  /\ LET h == ForEachActivate(HostNow, 1, userCfg, TRUE)
     IN /\ loaded' = h.loaded
        /\ active' = h.active
        /\ calls' = h.calls
        /\ serialized' = h.serialized
  /\ schemaMerged' = TRUE
  /\ nuclideActive' = TRUE
  /\ everActivated' = TRUE
  /\ errorReporterDisposable' = "set"
  /\ disposables' = [isNull |-> FALSE, menu |-> TRUE, held |-> [f \in Features |-> 1]]
  /\ template' = ReorderMenu(MenuAdd(template))
  /\ watchers' = [f \in Features |-> watchers[f] + 1]
  /\ lastOp' = Op("activate", NuclideName, "undefined", {}, FALSE, TRUE)
  /\ UNCHANGED <<initialLoadDisposable, userCfg, nuclideLoaded, loadPassDone>>
  /\ UNCHANGED notLoader

\* The callback of atom.config.onDidChange(feature.useKeyPath, ...)
RECURSIVE RunWatchers(_, _, _, _, _)
Watcher(h, name, newValue, thr) ==
  IF newValue = "true" THEN ActivatePackage(h, name)
  ELSE IF newValue = "false" THEN SafeDeactivate(h, name, "undefined", thr)
  ELSE h

RunWatchers(h, n, name, newValue, thr) ==
  IF n = 0 THEN h
  ELSE RunWatchers(Watcher(h, name, newValue, thr), n - 1, name, newValue, thr)

\* The user sets nuclide.use.<name> to v; atom.config calls the live watchers
\* of that key path when the value it reports changes.
ConfigChange(name, v, thr) ==
  /\ name \in Features /\ v \in Values
  /\ v /= userCfg[name]
  /\ userCfg' = [userCfg EXCEPT ![name] = v]
  /\ LET old == ConfigGet(userCfg, schemaMerged, name)
         new == ConfigGet(userCfg', schemaMerged, name)
         fired == IF new /= old THEN watchers[name] ELSE 0
         h == RunWatchers(HostNow, fired, name, new, thr)
     IN /\ loaded' = h.loaded
        /\ active' = h.active
        /\ calls' = h.calls
        /\ serialized' = h.serialized
        /\ lastOp' = Op("configChange", name, IF new /= old THEN new ELSE "same",
                        thr, FALSE, TRUE)
  /\ UNCHANGED <<initialLoadDisposable, disposables, errorReporterDisposable,
                 watchers, schemaMerged, nuclideLoaded, nuclideActive, template,
                 loadPassDone, everActivated>>
  /\ UNCHANGED notLoader

\* disposables.dispose(): the watchers the CompositeDisposable holds are
\* taken off atom.config.
DisposeKeepWatchers(d, w) == w
DisposeWatchers(d, w) == [f \in Features |-> w[f] - d.held[f]]

\* deactivate(); thr: the features whose deactivatePackage throws.
Deactivate(thr) ==
  /\ nuclideActive
  /\ nuclideActive' = FALSE
  /\ LET h == ForEachDeactivate(HostNow, 1, "true", thr)
         ok == ~h.threw /\ ~disposables.isNull   \* invariant(disposables != null)
     IN /\ loaded' = h.loaded
        /\ active' = h.active
        /\ calls' = h.calls
        /\ serialized' = h.serialized
        /\ watchers' = IF ok THEN DisposeWatchers(disposables, watchers) ELSE watchers
        /\ template' = IF ok /\ disposables.menu THEN MenuDispose(template) ELSE template
        /\ disposables' = IF ok THEN NoDisposables ELSE disposables
        /\ errorReporterDisposable' =
             IF ok /\ errorReporterDisposable /= "null" THEN "null"
             ELSE errorReporterDisposable
        /\ lastOp' = Op("deactivate", NuclideName, "undefined", thr, FALSE,
                        ok /\ errorReporterDisposable /= "null")
  /\ UNCHANGED <<initialLoadDisposable, userCfg, schemaMerged, nuclideLoaded,
                 loadPassDone, everActivated>>
  /\ UNCHANGED notLoader

\* serialize(); thr: the features whose serializePackage throws.
Serialize(thr) ==
  /\ nuclideActive
  /\ LET h == ForEachSerialize(HostNow, 1, thr)
     IN /\ loaded' = h.loaded
        /\ active' = h.active
        /\ calls' = h.calls
        /\ serialized' = h.serialized
        /\ lastOp' = Op("serialize", NuclideName, "undefined", thr, FALSE, ~h.threw)
  /\ UNCHANGED <<initialLoadDisposable, disposables, errorReporterDisposable,
                 watchers, userCfg, schemaMerged, nuclideLoaded, nuclideActive,
                 template, loadPassDone, everActivated>>
  /\ UNCHANGED notLoader

\* ============================================== observePaneItemVisibility
Panes == 1..NumPanes
Subscribers == 1..NumSubs
Items == {"editor", "tree"}
NoItem == "undefined"
NoAbsence == [phase |-> "none", pane |-> 0]

\* atom.workspace.getPaneContainers(): the centre and a dock; every pane
\* lives in one of them.
GetPaneContainers == {"center", "dock"}
ContainerOf(p) == IF p % 2 = 1 THEN "center" ELSE "dock"

\* The panes itemActivations hears of: observePanes of every container.
ObservedPanes == {p \in Panes : ContainerOf(p) \in GetPaneContainers}
AlivePanes == {p \in Panes : paneState[p] = "alive"}

\* What the workspace says: the item is the active item of an existing pane.
Visible(item) == \E p \in AlivePanes : paneItem[p] = item

\* The accumulator of scan(): item == null deletes the pane's entry,
\* otherwise the entry is set.
Scan(map, pane, item) ==
  IF item = NoItem THEN [map EXCEPT ![pane] = NoItem]
  ELSE [map EXCEPT ![pane] = item]

\* Array.from(map.values())
MapValues(map) == {map[p] : p \in {q \in Panes : map[q] /= NoItem}}

\* activeItems.includes(item)
Includes(activeItems, item) == BoolValue(item \in activeItems)

\* distinctUntilChanged(): whether a value is passed on
DistinctOff(last, v) == TRUE
DistinctUntilChanged(last, v) == v /= last

\* share() subscribes the source for its first subscriber: observePanes calls
\* back for every existing pane, observeActiveItem for its current active
\* item; scan() folds these into its Map, which was created once, with the
\* operator, and is the one every subscription of the source accumulates into.
RECURSIVE ScanPanes(_, _)
ScanPanes(map, todo) ==
  IF todo = {} THEN map
  ELSE LET p == CHOOSE q \in todo : \A r \in todo : q <= r
       IN ScanPanes(Scan(map, p, paneItem[p]), todo \ {p})

Subscribe(s, item) ==
  /\ s \in Subscribers /\ item \in Items
  /\ subItem[s] = NoItem
  /\ IF ~docksApi
     THEN UNCHANGED visVars            \* Observable.empty()
     ELSE /\ subItem' = [subItem EXCEPT ![s] = item]
          /\ subLast' = [subLast EXCEPT ![s] = "none"]
          /\ emitted' = [emitted EXCEPT ![s] = << >>]
          /\ emitTruth' = [emitTruth EXCEPT ![s] = "none"]
          /\ absence' = [absence EXCEPT ![s] = NoAbsence]
          /\ connected' = TRUE
          /\ IF connected
             THEN UNCHANGED <<acc, pending>>
             ELSE /\ acc' = ScanPanes(acc, AlivePanes \cap ObservedPanes)
                  /\ pending' = (AlivePanes \cap ObservedPanes /= {})
          /\ UNCHANGED <<docksApi, paneState, paneItem>>
  /\ UNCHANGED notVis

\* Unsubscribing the last subscriber unsubscribes the source: the scheduled
\* debounce is cancelled, the pane callbacks are removed.
Unsubscribe(s) ==
  /\ s \in Subscribers
  /\ subItem[s] /= NoItem
  /\ subItem' = [subItem EXCEPT ![s] = NoItem]
  /\ subLast' = [subLast EXCEPT ![s] = "none"]
  /\ emitted' = [emitted EXCEPT ![s] = << >>]
  /\ emitTruth' = [emitTruth EXCEPT ![s] = "none"]
  /\ absence' = [absence EXCEPT ![s] = NoAbsence]
  /\ LET last == \A t \in Subscribers \ {s} : subItem[t] = NoItem
     IN /\ connected' = ~last
        /\ pending' = (pending /\ ~last)
  /\ UNCHANGED <<docksApi, paneState, paneItem, acc>>
  /\ UNCHANGED notVis

\* What every subscription does with the array debounceTime passes on:
\* map to includes(item), pass a changed value on to the subscriber.
LastTwo(seq) == IF Len(seq) > 2 THEN SubSeq(seq, Len(seq) - 1, Len(seq)) ELSE seq

Deliver(activeItems) ==
  LET value(s) == Includes(activeItems, subItem[s])
      passes(s) == subItem[s] /= NoItem /\ DistinctUntilChanged(subLast[s], value(s))
  IN /\ subLast' = [s \in Subscribers |-> IF passes(s) THEN value(s) ELSE subLast[s]]
     /\ emitted' = [s \in Subscribers |->
                      IF passes(s) THEN LastTwo(Append(emitted[s], value(s)))
                      ELSE emitted[s]]
     /\ emitTruth' = [s \in Subscribers |->
                        IF passes(s) THEN BoolValue(Visible(subItem[s]))
                        ELSE emitTruth[s]]

\* History: a subscriber that last saw true and whose item an event of
\* `pane` took out of the record since the last animation frame has an "open"
\* absence; the frame closes it if the item is back in the record by then; a
\* pane event after that frame forgets it.
AbsenceAfterEvent(map, pane) ==
  [s \in Subscribers |->
     IF subLast[s] = "true" /\ subItem[s] \notin MapValues(map)
     THEN IF absence[s].phase = "open" THEN absence[s]
          ELSE [phase |-> "open", pane |-> pane]
     ELSE IF absence[s].phase = "closed" THEN NoAbsence ELSE absence[s]]

\* A pane event reaches scan() and debounceTime() while the source is
\* subscribed: the Map is updated and the emission is put off to the
\* animation frame.
PaneEventNoDebounce(p, item) ==
  IF connected /\ p \in ObservedPanes
  THEN /\ acc' = Scan(acc, p, item)
       /\ pending' = FALSE
       /\ absence' = AbsenceAfterEvent(acc', p)
       /\ Deliver(MapValues(acc'))
  ELSE UNCHANGED <<acc, pending, absence, subLast, emitted, emitTruth>>
PaneEvent(p, item) ==
  IF connected /\ p \in ObservedPanes
  THEN /\ acc' = Scan(acc, p, item)
       /\ pending' = TRUE
       /\ absence' = AbsenceAfterEvent(acc', p)
       /\ UNCHANGED <<subLast, emitted, emitTruth>>
  ELSE UNCHANGED <<acc, pending, absence, subLast, emitted, emitTruth>>

\* The workspace gets a new pane, with `item` active in it (or none).
CreatePane(p, item) ==
  /\ p \in Panes /\ item \in Items \cup {NoItem}
  /\ paneState[p] = "unborn"
  /\ paneState' = [paneState EXCEPT ![p] = "alive"]
  /\ paneItem' = [paneItem EXCEPT ![p] = item]
  /\ PaneEvent(p, item)
  /\ UNCHANGED <<docksApi, connected, subItem>>
  /\ UNCHANGED notVis

\* The active item of a pane changes (to none when its last item is closed).
ChangeActiveItem(p, item) ==
  /\ p \in Panes /\ item \in Items \cup {NoItem}
  /\ paneState[p] = "alive"
  /\ item /= paneItem[p]
  /\ paneItem' = [paneItem EXCEPT ![p] = item]
  /\ PaneEvent(p, item)
  /\ UNCHANGED <<docksApi, paneState, connected, subItem>>
  /\ UNCHANGED notVis

\* A pane is destroyed: takeUntil(paneDestroyed) completes activeItems and
\* concat emits {pane, item: null}.
DestroyPane(p) ==
  /\ p \in Panes
  /\ paneState[p] = "alive"
  /\ paneState' = [paneState EXCEPT ![p] = "destroyed"]
  /\ paneItem' = [paneItem EXCEPT ![p] = NoItem]
  /\ PaneEvent(p, NoItem)
  /\ UNCHANGED <<docksApi, connected, subItem>>
  /\ UNCHANGED notVis

\* The animation frame: debounceTime passes the Map on, as it is now.
AnimationFrame ==
  /\ pending
  /\ pending' = FALSE
  /\ Deliver(MapValues(acc))
  /\ absence' = [s \in Subscribers |->
                   IF absence[s].phase = "open" /\ subItem[s] \in MapValues(acc)
                   THEN [absence[s] EXCEPT !.phase = "closed"] ELSE NoAbsence]
  /\ UNCHANGED <<docksApi, paneState, paneItem, connected, acc, subItem>>
  /\ UNCHANGED notVis

\* ================================================== initial states, specs
Injective(t) == \A i, j \in DOMAIN t : t[i] = t[j] => i = j
MenuChoices == {MenuItem(l, TRUE) : l \in MenuLabels \cup {"Nuclide"}}
Templates == {t \in UNION {[1..n -> MenuChoices] : n \in 0..Cardinality(MenuChoices)} :
                Injective(t)}

LoaderStart ==
  /\ initialLoadDisposable = "listening"
  /\ disposables = NoDisposables
  /\ errorReporterDisposable = "set"
  /\ watchers = [f \in Features |-> 0]
  /\ schemaMerged = FALSE
  /\ nuclideLoaded = FALSE
  /\ nuclideActive = FALSE
  /\ loaded = {}
  /\ active = {}
  /\ calls = << >>
  /\ serialized = {}
  /\ loadPassDone = FALSE
  /\ everActivated = FALSE

\* The menu of a platform with window and help roles and of one without,
\* with and without a Nuclide menu that feature packages already filled.
LoaderTemplates ==
  { << MenuItem("File", TRUE), MenuItem("Window", TRUE), MenuItem("Help", TRUE) >>,
    << MenuItem("File", TRUE), MenuItem("Nuclide", TRUE) >> }

InitLoader ==
  /\ LoaderStart
  /\ userCfg \in [Features -> Values]
  /\ template \in LoaderTemplates
  /\ lastOp = Op("init", NuclideName, "undefined", {}, FALSE, TRUE)

\* Every menu template, for the menu handling of activate() and deactivate().
InitMenu ==
  /\ LoaderStart
  /\ userCfg \in {[f \in Features |-> "undefined"], [f \in Features |-> "false"]}
  /\ template \in Templates
  /\ lastOp = Op("init", NuclideName, "undefined", {}, FALSE, TRUE)

IdleLoader ==
  /\ LoaderStart
  /\ userCfg = [f \in Features |-> "undefined"]
  /\ template = << >>
  /\ lastOp = Op("init", NuclideName, "undefined", {}, FALSE, TRUE)

VisStart ==
  /\ connected = FALSE
  /\ acc = [p \in Panes |-> NoItem]
  /\ pending = FALSE
  /\ subItem = [s \in Subscribers |-> NoItem]
  /\ subLast = [s \in Subscribers |-> "none"]
  /\ emitted = [s \in Subscribers |-> << >>]
  /\ emitTruth = [s \in Subscribers |-> "none"]
  /\ absence = [s \in Subscribers |-> NoAbsence]

InitVis ==
  /\ VisStart
  /\ docksApi \in BOOLEAN
  /\ paneState \in [Panes -> {"unborn", "alive"}]
  /\ paneItem \in [Panes -> Items \cup {NoItem}]
  /\ \A p \in Panes : paneState[p] /= "alive" => paneItem[p] = NoItem

IdleVis ==
  /\ VisStart
  /\ docksApi = TRUE
  /\ paneState = [p \in Panes |-> "unborn"]
  /\ paneItem = [p \in Panes |-> NoItem]

NextLoader ==
  \/ \E name \in {NuclideName, OtherName} : DidLoadPackage(name)
  \/ \E name \in Features : HostActivatesFeature(name)
  \/ Activate
  \/ \E name \in Features, v \in Values :
       \E thr \in SUBSET {name} : ConfigChange(name, v, thr)
  \/ \E thr \in SUBSET Features : Deactivate(thr)
  \/ \E thr \in SUBSET Features : Serialize(thr)

\* The handlers that touch the menu template.
NextMenu ==
  \/ \E name \in {NuclideName, OtherName} : DidLoadPackage(name)
  \/ Activate
  \/ \E thr \in SUBSET Features : Deactivate(thr)

NextVis ==
  \/ \E s \in Subscribers, item \in Items : Subscribe(s, item)
  \/ \E s \in Subscribers : Unsubscribe(s)
  \/ \E p \in Panes, item \in Items \cup {NoItem} : CreatePane(p, item)
  \/ \E p \in Panes, item \in Items \cup {NoItem} : ChangeActiveItem(p, item)
  \/ \E p \in Panes : DestroyPane(p)
  \/ AnimationFrame

InitProviderSpec == InitProvider /\ IdleLoader /\ IdleVis
InitLoaderSpec == InitProvider /\ InitLoader /\ IdleVis
InitMenuSpec == InitProvider /\ InitMenu /\ IdleVis
InitVisSpec == InitProvider /\ IdleLoader /\ InitVis

SpecSupportedPIDs == InitProviderSpec /\ [][NextSupportedPIDs]_vars
SpecRun == InitProviderSpec /\ [][NextRun]_vars
SpecLoader == InitLoaderSpec /\ [][NextLoader]_vars
SpecMenu == InitMenuSpec /\ [][NextMenu]_vars
SpecVis == InitVisSpec /\ [][NextVis]_vars

\* ================================================================ claims
\* ---- ATDeviceStopPackageProvider (SpecRun, SpecSupportedPIDs)

\* C1: run(host, device, proc) calls rpcFactory(host) once and, on the service
\* it returns, killProcess(device, proc.name) once, and nothing else; the
\* promise of run settles as the promise of killProcess does: it stays pending
\* while the RPC is pending, fails when the RPC fails and never reports
\* success for a failed RPC.
C1_RunDelegatesToKillProcess ==
  runPromise /= "none" =>
    /\ rpcLog = << [fn |-> "rpcFactory", host |-> runArgs.host,
                    device |-> "", arg |-> ""],
                   [fn |-> "killProcess", host |-> runArgs.host,
                    device |-> runArgs.device, arg |-> runArgs.proc.name] >>
    /\ rpcPromise = "pending" => runPromise = "pending"
    /\ runPromise \in {"fulfilled", "rejected"} => runPromise = rpcPromise
    /\ rpcPromise = "rejected" => runPromise /= "fulfilled"

\* A run whose RPC failed and whose promise has settled.
C1_Witness ==
  /\ runPromise = "rejected"
  /\ rpcPromise = "rejected"
  /\ Len(rpcLog) = 2

\* C2: getSupportedPIDs resolves to exactly the set of the pids of the given
\* processes: every process is supported (isSupported is true of it), none is
\* filtered out, no pid is added, a pid given twice is in the set once; host
\* and device play no part.
C2_SupportedPIDsAreAllPids ==
  supported.called =>
    /\ supported.state = "fulfilled"
    /\ \A i \in DOMAIN supported.procs :
         IsSupported(supported.procs[i]) /\ supported.procs[i].pid \in supported.value
    /\ \A n \in supported.value :
         \E i \in DOMAIN supported.procs : supported.procs[i].pid = n
    /\ Cardinality(supported.value) <= Len(supported.procs)

\* Two processes with the same pid: the set has one element.
C2_Witness ==
  /\ supported.called
  /\ Len(supported.procs) = 2
  /\ supported.procs[1].pid = supported.procs[2].pid
  /\ supported.procs[1].name /= supported.procs[2].name
  /\ Cardinality(supported.value) = 1

\* ---- the loader (SpecLoader)
CallsOf(fn) == {i \in DOMAIN calls : calls[i].fn = fn}
CalledPkgs == {calls[i].pkg : i \in DOMAIN calls}

\* C3: while Nuclide is activated, a change of nuclide.use.F to true makes
\* the loader request the activation of F, a change to false makes it request
\* the deactivation of F when F is loaded (and nothing when it is not), and
\* no call it makes is about another feature.
C3_ToggleRequestsOnlyThatFeature ==
  (lastOp.op = "configChange" /\ nuclideActive) =>
    /\ lastOp.newValue = "true" =>
         /\ calls /= << >>
         /\ \A i \in DOMAIN calls : calls[i].fn = "activatePackage"
    /\ lastOp.newValue = "false" =>
         /\ (lastOp.pkg \in loaded) = (calls /= << >>)
         /\ \A i \in DOMAIN calls : calls[i].fn = "deactivatePackage"
    /\ \A i \in DOMAIN calls :
         /\ calls[i].pkg = lastOp.pkg
         /\ calls[i].fn \in {"activatePackage", "deactivatePackage"}
    /\ lastOp.newValue = "true" => lastOp.pkg \in active

\* A loaded but inactive feature is switched off while the other feature is
\* active: its deactivation is requested, the other feature stays active.
C3_Witness ==
  /\ lastOp.op = "configChange" /\ nuclideActive
  /\ lastOp.newValue = "false"
  /\ lastOp.pkg \in loaded
  /\ lastOp.thr = {}
  /\ calls /= << >>
  /\ active = Features \ {lastOp.pkg}

\* C4 as stated: when deactivate() returns normally, the deactivation of
\* every loaded feature has been requested and no feature is left active.
C4_NoFeatureLeftActive ==
  (lastOp.op = "deactivate" /\ lastOp.returned) =>
    /\ CalledPkgs = loaded
    /\ active = {}

\* C4, amended: when deactivate() returns normally, the deactivation of every
\* loaded feature has been requested, once each, whatever its nuclide.use
\* setting, and only a feature whose deactivation threw can still be active.
C4_DeactivatesEveryLoadedFeature ==
  (lastOp.op = "deactivate" /\ lastOp.returned) =>
    /\ CalledPkgs = loaded
    /\ Len(calls) = Cardinality(loaded)
    /\ \A i \in DOMAIN calls : calls[i].fn = "deactivatePackage"
    /\ active \subseteq lastOp.thr

\* deactivate() returned; both features were loaded and active, one of them
\* switched off in the settings; the deactivation of one threw and it alone
\* is still active.
C4_Witness ==
  /\ lastOp.op = "deactivate" /\ lastOp.returned
  /\ loaded = Features
  /\ Len(calls) = Len(FeatureOrder)
  /\ \E f \in Features : ConfigGet(userCfg, schemaMerged, f) = "false"
  /\ Cardinality(lastOp.thr) = 1
  /\ active = lastOp.thr

\* C5: deactivate() asks for every deactivation with serialization suppressed
\* and no feature is serialized by it; serialize() asks for the serialization
\* of exactly the features active at the call, once each, and of none that is
\* inactive or not loaded.
C5_SerializeAndDeactivateApart ==
  /\ lastOp.op = "deactivate" =>
       /\ serialized = {}
       /\ \A i \in DOMAIN calls :
            calls[i].fn = "deactivatePackage" /\ calls[i].suppress = "true"
  /\ lastOp.op = "serialize" =>
       /\ CalledPkgs = active
       /\ Len(calls) = Cardinality(active)
       /\ \A i \in DOMAIN calls : calls[i].fn = "serializePackage"
       /\ serialized = active \ lastOp.thr

\* serialize() with one feature active and the other loaded but inactive.
C5_Witness ==
  /\ lastOp.op = "serialize"
  /\ Cardinality(active) = 1
  /\ loaded = Features
  /\ serialized = active

\* ---- the menu (SpecMenu)
IsRoleItem(item) == item.role = "window" \/ item.role = "help"
WithoutNuclide(t) == SelectSeq(t, LAMBDA item : item.label /= "Nuclide")
NuclidePositions(t) == {i \in DOMAIN t : t[i].label = "Nuclide"}

\* C7: after activate() the template has one Nuclide item; the other items
\* are those of before, in the same order; when an item has the role window or
\* help, the Nuclide item is immediately before the first such item; when
\* none has, the order is the one of before (the Nuclide item appended when it
\* was missing).
C7_NuclideMenuBeforeWindowOrHelp ==
  lastOp.op = "activate" =>
    LET before == lastOp.templateBefore
    IN /\ WithoutNuclide(template) = WithoutNuclide(before)
       /\ Cardinality(NuclidePositions(template)) = 1
       /\ Len(template) = Len(WithoutNuclide(before)) + 1
       /\ (\E i \in DOMAIN before : IsRoleItem(before[i])) =>
            \E k \in NuclidePositions(template) :
              /\ k < Len(template)
              /\ IsRoleItem(template[k + 1])
              /\ \A j \in 1..(k - 1) : ~IsRoleItem(template[j])
       /\ ~(\E i \in DOMAIN before : IsRoleItem(before[i])) =>
            template = IF HasLabel(before, "Nuclide") THEN before
                       ELSE Append(before, MenuItem("Nuclide", FALSE))

\* The Nuclide item was first, two items before the first role item, and
\* has been moved behind the item between them.
C7_Witness ==
  /\ lastOp.op = "activate"
  /\ Len(lastOp.templateBefore) >= 3
  /\ lastOp.templateBefore[1].label = "Nuclide"
  /\ ~IsRoleItem(lastOp.templateBefore[2])
  /\ IsRoleItem(lastOp.templateBefore[3])
  /\ template[2].label = "Nuclide"

\* ---- the load pass (SpecLoader)

IsSampleName(name) ==
  /\ Len(name) >= 7
  /\ name[1] = "s" /\ name[2] = "a" /\ name[3] = "m" /\ name[4] = "p"
  /\ name[5] = "l" /\ name[6] = "e" /\ name[7] = "-"

\* C9: the load pass loads F exactly when the user-set value of nuclide.use.F
\* is truthy, or is not set and F's name does not start with 'sample-': a
\* sample feature is loaded only when the user enabled it, a feature the user
\* disabled is not loaded.
C9_LoadPassHonoursSettingThenDefault ==
  lastOp.passRan =>
    /\ \A f \in Features :
         (f \in loaded) <=>
           \/ userCfg[f] \in {"true", "1"}
           \/ userCfg[f] = "undefined" /\ ~IsSampleName(f)
    /\ CalledPkgs = loaded
    /\ Len(calls) = Cardinality(loaded)
    /\ \A i \in DOMAIN calls : calls[i].fn = "loadPackage"

\* Nothing is set by the user: the feature named samples is loaded, the one
\* named sample-x is not.
C9_Witness ==
  /\ lastOp.passRan
  /\ \A f \in Features : userCfg[f] = "undefined"
  /\ Cardinality(loaded) = 1
  /\ \E f \in Features \ loaded : IsSampleName(f)

\* ---- observePaneItemVisibility (SpecVis)

\* C6: every value a subscriber receives is true exactly when, as the value
\* is computed, its item is the active item of an existing pane.
C6_EmissionIsWorkspaceVisibility ==
  \A s \in Subscribers :
    emitted[s] /= << >> => emitted[s][Len(emitted[s])] = emitTruth[s]

\* C10: no subscriber receives the same value twice in a row.
C10_NoRepeatedEmission ==
  \A s \in Subscribers :
    Len(emitted[s]) = 2 => emitted[s][1] /= emitted[s][2]

\* A subscriber has seen its item visible and then not visible.
C10_Witness ==
  \E s \in Subscribers : emitted[s] = << "true", "false" >> /\ subLast[s] = "false"

\* C11: a destroyed pane has no entry in the record of panes and active items;
\* so, once the animation frame after the last pane event has passed, a
\* subscriber that last saw true watches an item that is the active item of an
\* existing pane (one whose only pane was destroyed has seen false), and one
\* that last saw false watches an item that is active in no pane.
C11_DestroyedPaneEntryRemoved ==
  /\ \A p \in Panes : paneState[p] = "destroyed" => acc[p] = NoItem
  /\ (connected /\ ~pending) =>
       \A s \in Subscribers :
         /\ subLast[s] = "true" => Visible(subItem[s])
         /\ subLast[s] = "false" => ~Visible(subItem[s])

\* C12: a subscriber receives a value only at the animation frame, and the
\* value is includes(item) of the record as the last pane event before the
\* frame left it; so a subscriber that last saw true whose item is, at the
\* frame, the active item of a pane receives nothing at all, whatever panes
\* the item left since the previous frame, and no false in between.
Received(s) ==
  /\ subItem[s] /= NoItem
  /\ subItem'[s] = subItem[s]
  /\ emitted'[s] /= emitted[s] \/ subLast'[s] /= subLast[s]

C12_Step ==
  \A s \in Subscribers :
    /\ Received(s) =>
         /\ pending /\ ~pending' /\ acc' = acc
         /\ subLast'[s] = Includes(MapValues(acc), subItem[s])
    /\ (subLast[s] = "true" /\ Visible(subItem[s])) => ~Received(s)
    /\ absence'[s].phase = "closed" =>
         /\ subLast[s] = "true" /\ subLast'[s] = "true"
         /\ emitted'[s] = emitted[s]

C12_DebouncedToAnimationFrame == [][C12_Step]_vars

\* An item left one pane and became the active item of another between two
\* animation frames, under a subscriber that had seen true and, the frame
\* passed, has seen nothing else.
C12_Witness ==
  \E s \in Subscribers, p, q \in AlivePanes :
    /\ absence[s] = [phase |-> "closed", pane |-> p]
    /\ ~pending
    /\ emitted[s] = << "true" >>
    /\ paneItem[p] /= subItem[s] /\ acc[p] /= subItem[s]
    /\ q /= p
    /\ paneItem[q] = subItem[s] /\ acc[q] = subItem[s]

\* C13: every feature has one live config watcher while Nuclide is activated
\* and none while it is not, however many times it was activated and
\* deactivated; so a change of nuclide.use.F after deactivate() makes the
\* loader call nothing, and a change while activated makes it call at most
\* once: once for true, once for false when F is loaded.
C13_OneWatcherWhileActivated ==
  /\ \A f \in Features : watchers[f] = IF nuclideActive THEN 1 ELSE 0
  /\ nuclideActive = ~disposables.isNull
  /\ lastOp.op = "configChange" =>
       IF nuclideActive
       THEN /\ Len(calls) <= 1
            /\ lastOp.newValue = "true" => Len(calls) = 1
            /\ (lastOp.newValue = "false" /\ lastOp.pkg \in loaded) => Len(calls) = 1
       ELSE calls = << >>

\* Nuclide was activated and deactivated, and then the setting of a feature
\* that is loaded but not active became true: nothing was called.
C13_Witness ==
  /\ lastOp.op = "configChange"
  /\ lastOp.newValue = "true"
  /\ everActivated /\ ~nuclideActive
  /\ lastOp.pkg \in loaded \ active
  /\ calls = << >>
====
